---------------------------- MODULE Spec2Model ----------------------------
(***************************************************************************)
(* Model of src/addi_serial.c: the probe module for 8250/16550-type PCI    *)
(* ADDI-DATA serial ports.                                                 *)
(*                                                                         *)
(* The module models one PCI device and the driver's callbacks on it:      *)
(* the quirk lookup, the per-port setup strategies, the board heuristic,   *)
(* and the attach / suspend / resume / error-recovery / remove lifecycle.  *)
(*                                                                         *)
(* Encoding of C values:                                                   *)
(*  - error returns are the negative errno values of the source;           *)
(*  - u32 values of 2^31 and above are carried as their two's-complement   *)
(*    integer (PCI_ANY_ID, ~0, is -1), since those are the only ones the   *)
(*    program forms besides small numbers;                                 *)
(*  - board flags are a record of the fields the FL_ macros select.        *)
(***************************************************************************)
EXTENDS Integers, Sequences, FiniteSets, TLC

VARIABLES
    dev,         \* struct pci_dev: identity, class, resources, enable state
    hooks,       \* which optional hooks the matched quirk entry carries
    ent,         \* the pci_device_id the device matched: driver_data
    drvdata,     \* pci_get_drvdata(dev): NULL or the struct serial_private
    ports,       \* the 8250 core's lines: "free" | "active" | "suspended"
    phase,       \* where the bus framework is with this device
    last,        \* what the last callback did: its name, result, calls made
    att,         \* how the last attach loop ended (observation)
    hookhist,    \* order of init/exit hook invocations so far (observation)
    fq,          \* find_quirk's scan: position in pci_serial_quirks
    call         \* a setup or heuristic function called on its own: its
                 \* arguments and what it returned

vars == <<dev, hooks, ent, drvdata, ports, phase, last, att, hookhist, fq,
          call>>

NULL == [null |-> TRUE]

(***************************************************************************)
(* errno values the source returns                                         *)
(***************************************************************************)
ENOMEM == 12
EACCES == 13
ENODEV == 19
EINVAL == 22
ENOSPC == 28

(***************************************************************************)
(* PCI identities and class codes named in the source                      *)
(***************************************************************************)
PCI_ANY_ID == -1
PCI_VENDOR_ID_AMCC == 4328
PCI_VENDOR_ID_ADDIDATA == 5560
PCI_VENDOR_ID_NETMOS == 38672
PCI_VENDOR_ID_IBM == 4116
PCI_DEVICE_ID_AMCC_ADDIDATA_APCI7800 == 33166
PCI_DEVICE_ID_AMCC_ADDIDATA_APCI7500_d3 == 28675
PCI_DEVICE_ID_ADDIDATA_APCI7500 == 28672
PCI_DEVICE_ID_ADDIDATA_APCI7420 == 28673
PCI_DEVICE_ID_ADDIDATA_APCIe7420 == 28689
PCI_DEVICE_ID_NETMOS_9835 == 38965
PCI_CLASS_COMMUNICATION_SERIAL == 1792
PCI_CLASS_COMMUNICATION_MULTISERIAL == 1794
PCI_CLASS_COMMUNICATION_MODEM == 1795

PCI_NUM_BAR_RESOURCES == 6

(***************************************************************************)
(* pci_serial_quirks: the master list of quirks, in table order.           *)
(***************************************************************************)
pci_serial_quirks ==
    << [vendor |-> PCI_VENDOR_ID_AMCC,
        device |-> PCI_DEVICE_ID_AMCC_ADDIDATA_APCI7800,
        subvendor |-> PCI_ANY_ID, subdevice |-> PCI_ANY_ID,
        setup |-> "addidata_apci7800_setup"],
       [vendor |-> PCI_ANY_ID, device |-> PCI_ANY_ID,
        subvendor |-> PCI_ANY_ID, subdevice |-> PCI_ANY_ID,
        setup |-> "pci_default_setup"] >>

\* quirk_id_matches without the wildcard case
quirk_id_matches_exact(quirk_id, dev_id) == quirk_id = dev_id

quirk_id_matches(quirk_id, dev_id) ==
    quirk_id = PCI_ANY_ID \/ quirk_id = dev_id

\* the condition of find_quirk's loop body for the entry at position q
quirk_matches(q, d) ==
    /\ quirk_id_matches(pci_serial_quirks[q].vendor, d.vendor)
    /\ quirk_id_matches(pci_serial_quirks[q].device, d.device)
    /\ quirk_id_matches(pci_serial_quirks[q].subvendor, d.subsystem_vendor)
    /\ quirk_id_matches(pci_serial_quirks[q].subdevice, d.subsystem_device)

\* for (quirk = pci_serial_quirks;; quirk++) if (...) break;
\* The loop has no bound of its own: a scan that leaves the table reads past
\* the array, reported here as position Len + 1.
RECURSIVE find_quirk_from(_, _)
find_quirk_from(q, d) ==
    IF q > Len(pci_serial_quirks) THEN q
    ELSE IF quirk_matches(q, d) THEN q
    ELSE find_quirk_from(q + 1, d)

find_quirk(d) == find_quirk_from(1, d)


(***************************************************************************)
(* struct pciserial_board.  flags is the record of what the FL_ macros     *)
(* read: FL_GET_BASE (base), FL_BASE_BARS (bars), FL_REGION_SZ_CAP (cap),  *)
(* FL_NOIRQ (noirq).                                                       *)
(***************************************************************************)
FL(base, bars) == [base |-> base, bars |-> bars, cap |-> FALSE, noirq |-> FALSE]

FL_BASE0 == FL(0, FALSE)
FL_BASE0_BARS == FL(0, TRUE)

Board(flags, num_ports, base_baud, uart_offset, first_offset) ==
    [flags |-> flags, num_ports |-> num_ports, base_baud |-> base_baud,
     uart_offset |-> uart_offset, reg_shift |-> 0,
     first_offset |-> first_offset]

\* enum pci_board_num_t: the indices of pci_boards
pbn_default == 0
pbn_b0_1_115200 == 1
pbn_b0_2_115200 == 2
pbn_b0_bt_2_115200 == 16
pbn_b1_8_115200 == 26
pbn_ADDIDATA_PCIe_2_3906250 == 28

\* pci_boards[], directly indexed by pci_board_num_t (position = index + 1)
pci_boards ==
    << Board(FL_BASE0, 1, 115200, 8, 0),          \* pbn_default
       Board(FL_BASE0, 1, 115200, 8, 0),          \* pbn_b0_1_115200
       Board(FL_BASE0, 2, 115200, 8, 0),          \* pbn_b0_2_115200
       Board(FL_BASE0, 4, 115200, 8, 0),          \* pbn_b0_4_115200
       Board(FL_BASE0, 5, 115200, 8, 0),          \* pbn_b0_5_115200
       Board(FL_BASE0, 8, 115200, 8, 0),          \* pbn_b0_8_115200
       Board(FL_BASE0, 1, 921600, 8, 0),          \* pbn_b0_1_921600
       Board(FL_BASE0, 2, 921600, 8, 0),          \* pbn_b0_2_921600
       Board(FL_BASE0, 4, 921600, 8, 0),          \* pbn_b0_4_921600
       Board(FL_BASE0, 2, 1130000, 8, 0),         \* pbn_b0_2_1130000
       Board(FL_BASE0, 4, 1152000, 8, 0),         \* pbn_b0_4_1152000
       Board(FL_BASE0, 4, 1250000, 8, 0),         \* pbn_b0_4_1250000
       Board(FL_BASE0, 2, 1843200, 8, 0),         \* pbn_b0_2_1843200
       Board(FL_BASE0, 4, 1843200, 8, 0),         \* pbn_b0_4_1843200
       Board(FL_BASE0, 1, 4000000, 8, 0),         \* pbn_b0_1_4000000
       Board(FL_BASE0_BARS, 1, 115200, 8, 0),     \* pbn_b0_bt_1_115200
       Board(FL_BASE0_BARS, 2, 115200, 8, 0),     \* pbn_b0_bt_2_115200
       Board(FL_BASE0_BARS, 4, 115200, 8, 0),     \* pbn_b0_bt_4_115200
       Board(FL_BASE0_BARS, 8, 115200, 8, 0),     \* pbn_b0_bt_8_115200
       Board(FL_BASE0_BARS, 1, 460800, 8, 0),     \* pbn_b0_bt_1_460800
       Board(FL_BASE0_BARS, 2, 460800, 8, 0),     \* pbn_b0_bt_2_460800
       Board(FL_BASE0_BARS, 4, 460800, 8, 0),     \* pbn_b0_bt_4_460800
       Board(FL_BASE0_BARS, 1, 921600, 8, 0),     \* pbn_b0_bt_1_921600
       Board(FL_BASE0_BARS, 2, 921600, 8, 0),     \* pbn_b0_bt_2_921600
       Board(FL_BASE0_BARS, 4, 921600, 8, 0),     \* pbn_b0_bt_4_921600
       Board(FL_BASE0_BARS, 8, 921600, 8, 0),     \* pbn_b0_bt_8_921600
       Board(FL_BASE0, 0, 0, 0, 0),               \* pbn_b1_8_115200: no initializer
       Board(FL_BASE0, 1, 3906250, 512, 4096),    \* pbn_ADDIDATA_PCIe_1_3906250
       Board(FL_BASE0, 2, 3906250, 512, 4096),    \* pbn_ADDIDATA_PCIe_2_3906250
       Board(FL_BASE0, 4, 3906250, 512, 4096),    \* pbn_ADDIDATA_PCIe_4_3906250
       Board(FL_BASE0, 8, 3906250, 512, 4096) >>  \* pbn_ADDIDATA_PCIe_8_3906250

ARRAY_SIZE_pci_boards == Len(pci_boards)

(***************************************************************************)
(* Bus resource accessors.  d.resource maps a slot to its region:          *)
(* [kind: "mem" | "io" | "none", start, len].                              *)
(***************************************************************************)
IORESOURCE_IO(d, bar) == d.resource[bar].kind = "io"
IORESOURCE_MEM(d, bar) == d.resource[bar].kind = "mem"
pci_resource_start(d, bar) == d.resource[bar].start
\* dev->resource[] continues past the six BARs (expansion ROM and further
\* slots); d.extra_len is the length such a slot reports.
pci_resource_len(d, bar) ==
    IF bar < PCI_NUM_BAR_RESOURCES THEN d.resource[bar].len ELSE d.extra_len


(***************************************************************************)
(* setup_port.  m is the region mapper's answer for this call:             *)
(* m.iomap is the set of BARs pcim_iomap maps, m.table whether             *)
(* pcim_iomap_table returns a table.  The result is [rc, port].            *)
(***************************************************************************)
setup_port(d, m, bar, offset, regshift) ==
    IF bar >= PCI_NUM_BAR_RESOURCES THEN [rc |-> -EINVAL, port |-> NULL]
    ELSE IF IORESOURCE_MEM(d, bar) THEN
        IF bar \notin m.iomap /\ ~m.table THEN [rc |-> -ENOMEM, port |-> NULL]
        ELSE [rc |-> 0,
              port |-> [iotype |-> "UPIO_MEM", bar |-> bar, iobase |-> 0,
                        mapbase |-> pci_resource_start(d, bar) + offset,
                        \* pcim_iomap_table(dev)[bar] + offset
                        membase |-> [mapped |-> bar \in m.iomap,
                                     offset |-> offset],
                        regshift |-> regshift]]
    ELSE [rc |-> 0,
          port |-> [iotype |-> "UPIO_PORT", bar |-> bar,
                    iobase |-> pci_resource_start(d, bar) + offset,
                    mapbase |-> 0, membase |-> NULL, regshift |-> 0]]

\* the card's ports laid out one after the other in the base BAR
addidata_apci7800_setup_flat(d, m, board, idx) ==
    setup_port(d, m, board.flags.base,
               board.first_offset + idx * board.uart_offset, board.reg_shift)

addidata_apci7800_setup(d, m, board, idx) ==
    LET bar == board.flags.base
        offset == board.first_offset
    IN  IF idx < 2 THEN
            setup_port(d, m, bar, offset + idx * board.uart_offset,
                       board.reg_shift)
        ELSE IF idx >= 2 /\ idx < 4 THEN
            setup_port(d, m, bar + 1, offset + (idx - 2) * board.uart_offset,
                       board.reg_shift)
        ELSE IF idx >= 4 /\ idx < 6 THEN
            setup_port(d, m, bar + 2, offset + (idx - 4) * board.uart_offset,
                       board.reg_shift)
        ELSE
            setup_port(d, m, bar + 3, offset + (idx - 6) * board.uart_offset,
                       board.reg_shift)

Pow2(n) == 2 ^ n

\* maxnr = (pci_resource_len(dev, bar) - first_offset) >> (reg_shift + 3),
\* an unsigned int.  The subtraction is in resource_size_t (64 bits when
\* d.phys64, else 32) and wraps when the region is shorter than the offset.
maxnr_of(d, board, bar) ==
    LET diff == pci_resource_len(d, bar) - board.first_offset
        sh == Pow2(board.reg_shift + 3)
    IN  IF diff >= 0 THEN diff \div sh
        ELSE IF d.phys64 THEN diff \div sh
        ELSE Pow2(32 - (board.reg_shift + 3)) + (diff \div sh)

\* idx >= maxnr, compared as unsigned int
idx_ge_maxnr(idx, maxnr) == maxnr >= 0 /\ idx >= maxnr

\* the default layout without the FL_BASE_BARS branch: every port in the
\* base BAR, spaced by uart_offset
pci_default_setup_packed(d, m, board, idx) ==
    LET bar == board.flags.base
        offset == board.first_offset + idx * board.uart_offset
        maxnr == maxnr_of(d, board, bar)
    IN  IF board.flags.cap /\ idx_ge_maxnr(idx, maxnr)
        THEN [rc |-> 1, port |-> NULL]
        ELSE setup_port(d, m, bar, offset, board.reg_shift)

pci_default_setup(d, m, board, idx) ==
    LET bar == IF board.flags.bars THEN board.flags.base + idx
               ELSE board.flags.base
        offset == IF board.flags.bars THEN board.first_offset
                  ELSE board.first_offset + idx * board.uart_offset
        maxnr == maxnr_of(d, board, bar)
    IN  IF board.flags.cap /\ idx_ge_maxnr(idx, maxnr)
        THEN [rc |-> 1, port |-> NULL]
        ELSE setup_port(d, m, bar, offset, board.reg_shift)

\* quirk->setup(priv, board, &uart, i) for the quirk at position q
quirk_setup(q, d, m, board, idx) ==
    IF pci_serial_quirks[q].setup = "addidata_apci7800_setup"
    THEN addidata_apci7800_setup(d, m, board, idx)
    ELSE pci_default_setup(d, m, board, idx)

\* The slots of dev->resource[] whose flags, start or length a call reads.
\* setup_port reads pci_resource_flags and pci_resource_start of bar, after
\* its range test.
setup_port_reads(d, m, bar) ==
    IF bar >= PCI_NUM_BAR_RESOURCES THEN {} ELSE {bar}

addidata_apci7800_setup_reads(d, m, board, idx) ==
    LET bar == board.flags.base
    IN  IF idx < 2 THEN setup_port_reads(d, m, bar)
        ELSE IF idx >= 2 /\ idx < 4 THEN setup_port_reads(d, m, bar + 1)
        ELSE IF idx >= 4 /\ idx < 6 THEN setup_port_reads(d, m, bar + 2)
        ELSE setup_port_reads(d, m, bar + 3)

\* pci_default_setup reads pci_resource_len of bar for maxnr, before the cap
\* test and before setup_port
pci_default_setup_reads(d, m, board, idx) ==
    LET bar == IF board.flags.bars THEN board.flags.base + idx
               ELSE board.flags.base
        maxnr == maxnr_of(d, board, bar)
    IN  {bar} \cup (IF board.flags.cap /\ idx_ge_maxnr(idx, maxnr)
                    THEN {}
                    ELSE setup_port_reads(d, m, bar))

get_pci_irq(d, board) == IF board.flags.noirq THEN 0 ELSE d.irq

(***************************************************************************)
(* The board heuristic.                                                    *)
(***************************************************************************)
serial_pci_is_class_communication(d) ==
    IF \/ /\ (d.class \div 256) # PCI_CLASS_COMMUNICATION_SERIAL
          /\ (d.class \div 256) # PCI_CLASS_COMMUNICATION_MULTISERIAL
          /\ (d.class \div 256) # PCI_CLASS_COMMUNICATION_MODEM
       \/ (d.class % 256) > 6
    THEN -ENODEV ELSE 0

BARS == 0 .. (PCI_NUM_BAR_RESOURCES - 1)

\* the second loop counting every 8-byte I/O BAR, contiguous or not
RECURSIVE guess_scan_any(_, _, _, _)
guess_scan_any(d, i, first_port, num_port) ==
    IF i >= PCI_NUM_BAR_RESOURCES
    THEN [first_port |-> first_port, num_port |-> num_port]
    ELSE IF IORESOURCE_IO(d, i) /\ pci_resource_len(d, i) = 8
         THEN guess_scan_any(d, i + 1,
                             IF first_port = -1 THEN i ELSE first_port,
                             num_port + 1)
         ELSE guess_scan_any(d, i + 1, first_port, num_port)

\* the second loop of serial_pci_guess_board, from slot i on, carrying
\* first_port and num_port
RECURSIVE guess_scan(_, _, _, _)
guess_scan(d, i, first_port, num_port) ==
    IF i >= PCI_NUM_BAR_RESOURCES
    THEN [first_port |-> first_port, num_port |-> num_port]
    ELSE IF /\ IORESOURCE_IO(d, i)
            /\ pci_resource_len(d, i) = 8
            /\ (first_port = -1 \/ first_port + num_port = i)
         THEN guess_scan(d, i + 1,
                         IF first_port = -1 THEN i ELSE first_port,
                         num_port + 1)
         ELSE guess_scan(d, i + 1, first_port, num_port)

\* the port count taken for the whole region length
guess_num_ports_len(d, first_port) == pci_resource_len(d, first_port)

\* board->num_ports = pci_resource_len(dev, first_port) / 8
guess_num_ports(d, first_port) == pci_resource_len(d, first_port) \div 8

\* serial_pci_guess_board(dev, board): [rc, board], board being *board after
\* the call (only flags and num_ports are written)
serial_pci_guess_board(d, board) ==
    LET rc == serial_pci_is_class_communication(d)
        io == {i \in BARS : IORESOURCE_IO(d, i)}
        num_port == Cardinality(io)
        num_iomem == Cardinality({i \in BARS : IORESOURCE_MEM(d, i)})
        first_port == IF io = {} THEN -1
                      ELSE CHOOSE i \in io : \A j \in io : i <= j
        run == guess_scan(d, 0, -1, 0)
    IN  IF rc # 0 THEN [rc |-> rc, board |-> board]
        ELSE IF (d.class \div 256) = PCI_CLASS_COMMUNICATION_MULTISERIAL
        THEN [rc |-> -ENODEV, board |-> board]
        ELSE IF num_iomem <= 1 /\ num_port = 1
        THEN [rc |-> 0,
              board |-> [board EXCEPT !.flags = FL(first_port, FALSE),
                                      !.num_ports =
                                          guess_num_ports(d, first_port)]]
        ELSE IF run.num_port > 1
        THEN [rc |-> 0,
              board |-> [board EXCEPT !.flags = FL(run.first_port, TRUE),
                                      !.num_ports = run.num_port]]
        ELSE [rc |-> -ENODEV, board |-> board]

\* the slots whose flags or length the two scans read: every BAR, once the
\* class tests let the call through
serial_pci_guess_board_reads(d) ==
    IF serial_pci_is_class_communication(d) # 0 THEN {}
    ELSE IF (d.class \div 256) = PCI_CLASS_COMMUNICATION_MULTISERIAL THEN {}
    ELSE BARS

serial_pci_matches(board, guessed) ==
    /\ board.num_ports = guessed.num_ports
    /\ board.base_baud = guessed.base_baud
    /\ board.uart_offset = guessed.uart_offset
    /\ board.reg_shift = guessed.reg_shift
    /\ board.first_offset = guessed.first_offset


(***************************************************************************)
(* Bounds of the model                                                     *)
(***************************************************************************)
NrUarts == 3          \* lines the 8250 core has to hand out
MaxInitPorts == 2     \* largest port count an init hook returns
MaxStalePorts == 2    \* largest num_ports read through a dangling board

Lines == 0 .. (NrUarts - 1)

(***************************************************************************)
(* The port-registration subsystem (8250 core), seen through its four      *)
(* calls.  A line is "free", "active" or "suspended".                      *)
(***************************************************************************)
Ev(ev, arg) == [ev |-> ev, arg |-> arg]

FreeLines(pts) == {l \in Lines : pts[l] = "free"}

\* what the core may answer to a run of up to k registrations: the lines it
\* hands out, in order, each free and none twice; the registration after the
\* last of them is rejected
RegSeqs(pts, k) ==
    LET F == FreeLines(pts)
        n == IF k < Cardinality(F) THEN k ELSE Cardinality(F)
    IN  UNION {{f \in [1 .. len -> F] :
                   \A i, j \in 1 .. len : i # j => f[i] # f[j]}
               : len \in 0 .. n}

serial8250_unregister_port(pts, l) == [pts EXCEPT ![l] = "free"]

serial8250_suspend_port(pts, l) ==
    IF pts[l] = "active" THEN [pts EXCEPT ![l] = "suspended"] ELSE pts

serial8250_resume_port(pts, l) ==
    IF pts[l] = "suspended" THEN [pts EXCEPT ![l] = "active"] ELSE pts

(***************************************************************************)
(* struct serial_private and ERR_PTR                                       *)
(***************************************************************************)
ERR_PTR(rc) == [err |-> rc]
IS_ERR(p) == "err" \in DOMAIN p
PTR_ERR(p) == p.err

\* what a board pointer points at when it is read
\*  - into pci_boards: the table entry;
\*  - to the caller's descriptor (exported entry point): that descriptor;
\*  - to pciserial_init_one's local tmp: the copy while the frame is live
BoardAt(bp) ==
    IF bp.at = "pci_boards" THEN pci_boards[bp.idx + 1] ELSE bp.val

\* what a board pointer may yield once pciserial_init_one has returned: a
\* pointer to its local tmp dangles, and the dead frame holds any port count
StaleBoards(bp) ==
    IF bp.at = "tmp"
    THEN {[bp.val EXCEPT !.num_ports = n] : n \in 0 .. MaxStalePorts}
    ELSE {BoardAt(bp)}

NoAtt == [nominal |-> 0, stop |-> "none", at |-> 0, windows |-> <<>>,
          num_ports |-> 0]

(***************************************************************************)
(* addi_pciserial_init_ports.  o is what the environment answers during    *)
(* the call: o.init_rc (the init hook's return), o.alloc_ok (kzalloc),     *)
(* o.regs (the lines the core hands out, in order, before it rejects a     *)
(* registration), o.m (the mapper).                                        *)
(***************************************************************************)

\* the nominal count recorded as the attached count
attached_count_nominal(i, nr_ports) == nr_ports

\* priv->nr = i, after the loop
attached_count(i, nr_ports) == i

\* the for loop at index i, as written; at is the index it stopped at
RECURSIVE attach_loop(_, _, _, _, _, _, _, _, _, _)
attach_loop(i, nr_ports, quirk, d, board, o, line, pts, trace, wins) ==
    IF i >= nr_ports
    THEN [at |-> i, line |-> line, ports |-> pts, trace |-> trace,
          windows |-> wins, stop |-> "full"]
    ELSE
    LET s == quirk_setup(quirk, d, o.m, board, i)
        given == Len(wins)      \* registrations that succeeded so far
    IN  IF s.rc # 0
        THEN [at |-> i, line |-> line, ports |-> pts, trace |-> trace,
              windows |-> wins,
              stop |-> IF s.rc = 1 THEN "notpresent" ELSE "setuperr"]
        ELSE IF given >= Len(o.regs)
        THEN [at |-> i, line |-> [line EXCEPT ![i] = -ENOSPC], ports |-> pts,
              trace |-> Append(trace, Ev("register", -ENOSPC)),
              windows |-> wins, stop |-> "regfail"]
        ELSE LET l == o.regs[given + 1]
             IN  attach_loop(i + 1, nr_ports, quirk, d, board, o,
                             [line EXCEPT ![i] = l],
                             [pts EXCEPT ![l] = "active"],
                             Append(trace, Ev("register", l)),
                             Append(wins, s.port))

\* the init-failure path leaving through err_deinit, which calls quirk->exit
init_error_exit_always(hk) == IF hk.exit THEN <<Ev("exit", 0)>> ELSE <<>>

\* the hook calls on the init-failure path: goto err_out skips quirk->exit
init_error_exit(hk) == <<>>

addi_pciserial_init_ports(d, hk, bp, board, pts, o) ==
    LET quirk == find_quirk(d)
        rc == IF hk.init THEN o.init_rc ELSE 0
        nr_ports == IF rc # 0 THEN rc ELSE board.num_ports
        tr0 == IF hk.init THEN <<Ev("init", rc)>> ELSE <<>>
    IN  IF rc < 0
        THEN [priv |-> ERR_PTR(rc), ports |-> pts,
              trace |-> tr0 \o init_error_exit(hk), att |-> NoAtt]
        ELSE IF ~o.alloc_ok
        THEN [priv |-> ERR_PTR(-ENOMEM), ports |-> pts,
              trace |-> tr0 \o (IF hk.exit THEN <<Ev("exit", 0)>> ELSE <<>>),
              att |-> NoAtt]
        ELSE LET a == attach_loop(0, nr_ports, quirk, d, board, o,
                                  [i \in 0 .. (nr_ports - 1) |-> 0], pts,
                                  tr0, <<>>)
             IN  [priv |-> [nr |-> attached_count(a.at, nr_ports),
                            quirk |-> quirk, board |-> bp, line |-> a.line],
                  ports |-> a.ports, trace |-> a.trace,
                  att |-> [nominal |-> nr_ports, stop |-> a.stop,
                           at |-> a.at, windows |-> a.windows,
                           num_ports |-> board.num_ports]]


(***************************************************************************)
(* pciserial_detach_ports, addi_pciserial_suspend_ports and                *)
(* addi_pciserial_resume_ports.  Each returns the lines' new state and the *)
(* calls made, in order.                                                   *)
(***************************************************************************)
\* the loops stopping one handle early
loop_bound_short(priv) == IF priv.nr > 0 THEN priv.nr - 1 ELSE 0

\* number of handles the detach, suspend and resume loops walk: i < priv->nr
loop_bound(priv) == priv.nr

RECURSIVE unregister_loop(_, _, _, _)
unregister_loop(i, priv, pts, trace) ==
    IF i >= loop_bound(priv) THEN [ports |-> pts, trace |-> trace]
    ELSE unregister_loop(i + 1, priv,
                         serial8250_unregister_port(pts, priv.line[i]),
                         Append(trace, Ev("unregister", priv.line[i])))

pciserial_detach_ports(priv, d, hk, pts) ==
    LET u == unregister_loop(0, priv, pts, <<>>)
        quirk == find_quirk(d)
    IN  [ports |-> u.ports,
         trace |-> IF hk.exit THEN Append(u.trace, Ev("exit", 0))
                   ELSE u.trace]

RECURSIVE suspend_loop(_, _, _, _)
suspend_loop(i, priv, pts, trace) ==
    IF i >= loop_bound(priv) THEN [ports |-> pts, trace |-> trace]
    ELSE IF priv.line[i] >= 0
    THEN suspend_loop(i + 1, priv,
                      serial8250_suspend_port(pts, priv.line[i]),
                      Append(trace, Ev("suspend", priv.line[i])))
    ELSE suspend_loop(i + 1, priv, pts, trace)

addi_pciserial_suspend_ports(priv, hk, pts) ==
    LET u == suspend_loop(0, priv, pts, <<>>)
    IN  [ports |-> u.ports,
         trace |-> IF hk.exit THEN Append(u.trace, Ev("exit", 0))
                   ELSE u.trace]

RECURSIVE resume_loop(_, _, _, _)
resume_loop(i, priv, pts, trace) ==
    IF i >= loop_bound(priv) THEN [ports |-> pts, trace |-> trace]
    ELSE IF priv.line[i] >= 0
    THEN resume_loop(i + 1, priv,
                     serial8250_resume_port(pts, priv.line[i]),
                     Append(trace, Ev("resume", priv.line[i])))
    ELSE resume_loop(i + 1, priv, pts, trace)

\* resume giving up when the init hook fails
addi_pciserial_resume_ports_abort(priv, hk, pts, init_rc) ==
    IF hk.init /\ init_rc < 0
    THEN [ports |-> pts, trace |-> <<Ev("init", init_rc)>>]
    ELSE resume_loop(0, priv, pts,
                     IF hk.init THEN <<Ev("init", init_rc)>> ELSE <<>>)

\* init_rc is the init hook's return, which the function ignores
addi_pciserial_resume_ports(priv, hk, pts, init_rc) ==
    resume_loop(0, priv, pts,
                IF hk.init THEN <<Ev("init", init_rc)>> ELSE <<>>)

(***************************************************************************)
(* Observation of the hook calls: a callback's calls advance the pairing   *)
(* of init and exit invocations.                                           *)
(*   "balanced": every init so far was followed by one exit                *)
(*   "open": the last init has had no exit yet                             *)
(*   "exit_unmatched": an exit ran with no init since the last exit        *)
(*   "init_unmatched": an init ran while the previous one was still open   *)
(***************************************************************************)
HookStep(h, e) ==
    IF h \in {"exit_unmatched", "init_unmatched"} THEN h
    ELSE IF e.ev = "init" THEN (IF h = "open" THEN "init_unmatched" ELSE "open")
    ELSE IF e.ev = "exit"
         THEN (IF h = "open" THEN "balanced" ELSE "exit_unmatched")
    ELSE h

RECURSIVE HookFold(_, _)
HookFold(h, trace) ==
    IF trace = <<>> THEN h
    ELSE HookFold(HookStep(h, Head(trace)), Tail(trace))


(***************************************************************************)
(* The devices the model probes.                                           *)
(***************************************************************************)
IO(start, len) == [kind |-> "io", start |-> start, len |-> len]
MEM(start, len) == [kind |-> "mem", start |-> start, len |-> len]
NONE == [kind |-> "none", start |-> 0, len |-> 0]

Res(regions) == [b \in BARS |-> regions[b + 1]]

Device(vendor, device, subvendor, subdevice, class, regions) ==
    [vendor |-> vendor, device |-> device,
     subsystem_vendor |-> subvendor, subsystem_device |-> subdevice,
     class |-> class, resource |-> Res(regions), extra_len |-> 0,
     phys64 |-> TRUE, irq |-> 5, enabled |-> FALSE, saved |-> FALSE]

\* class code 0x070002: serial controller, 16550 programming interface
CLASS_SERIAL_16550 == PCI_CLASS_COMMUNICATION_SERIAL * 256 + 2
CLASS_MULTISERIAL == PCI_CLASS_COMMUNICATION_MULTISERIAL * 256

\* rows of serial_pci_tbl, with a device each row matches
TableCases ==
    { [d |-> Device(PCI_VENDOR_ID_ADDIDATA, PCI_DEVICE_ID_ADDIDATA_APCI7420,
                    PCI_VENDOR_ID_ADDIDATA, PCI_DEVICE_ID_ADDIDATA_APCI7420,
                    CLASS_SERIAL_16550,
                    <<IO(4096, 16), NONE, NONE, NONE, NONE, NONE>>),
       e |-> [via |-> "pci_tbl", driver_data |-> pbn_b0_2_115200]],
      [d |-> Device(PCI_VENDOR_ID_AMCC, PCI_DEVICE_ID_AMCC_ADDIDATA_APCI7800,
                    PCI_VENDOR_ID_AMCC, PCI_DEVICE_ID_AMCC_ADDIDATA_APCI7800,
                    CLASS_SERIAL_16550,
                    <<MEM(8192, 128), IO(4096, 16), IO(4112, 16),
                      IO(4128, 16), IO(4144, 16), NONE>>),
       e |-> [via |-> "pci_tbl", driver_data |-> pbn_b1_8_115200]],
      [d |-> Device(PCI_VENDOR_ID_NETMOS, PCI_DEVICE_ID_NETMOS_9835,
                    PCI_VENDOR_ID_IBM, 665, CLASS_SERIAL_16550,
                    <<IO(4096, 8), IO(4104, 8), NONE, NONE, NONE, NONE>>),
       e |-> [via |-> "pci_tbl", driver_data |-> pbn_b0_bt_2_115200]],
      [d |-> Device(PCI_VENDOR_ID_ADDIDATA, PCI_DEVICE_ID_ADDIDATA_APCIe7420,
                    PCI_VENDOR_ID_ADDIDATA, PCI_DEVICE_ID_ADDIDATA_APCIe7420,
                    CLASS_SERIAL_16550,
                    <<MEM(65536, 5120), NONE, NONE, NONE, NONE, NONE>>),
       e |-> [via |-> "pci_tbl", driver_data |-> pbn_ADDIDATA_PCIe_2_3906250]] }

\* devices bound through a dynamic id, whose driver_data is pbn_default
DynamicCases ==
    { [d |-> Device(PCI_VENDOR_ID_NETMOS, 1, PCI_VENDOR_ID_NETMOS, 1,
                    CLASS_SERIAL_16550,
                    <<MEM(8192, 64), NONE, IO(4096, 16), NONE, NONE, NONE>>),
       e |-> [via |-> "new_id", driver_data |-> pbn_default]],
      [d |-> Device(PCI_VENDOR_ID_NETMOS, 2, PCI_VENDOR_ID_NETMOS, 2,
                    CLASS_SERIAL_16550,
                    <<MEM(8192, 64), MEM(16384, 64), NONE, IO(4096, 8),
                      IO(4104, 8), NONE>>),
       e |-> [via |-> "new_id", driver_data |-> pbn_default]],
      [d |-> Device(PCI_VENDOR_ID_NETMOS, 3, PCI_VENDOR_ID_NETMOS, 3,
                    CLASS_MULTISERIAL,
                    <<IO(4096, 16), NONE, NONE, NONE, NONE, NONE>>),
       e |-> [via |-> "new_id", driver_data |-> pbn_default]] }

\* a caller of the exported addi_pciserial_init_ports with its own
\* descriptor: one entry serving boards of several sizes, capped by the
\* region (FL_REGION_SZ_CAP)
CappedBoard(num_ports) ==
    [flags |-> [base |-> 0, bars |-> FALSE, cap |-> TRUE, noirq |-> FALSE],
     num_ports |-> num_ports, base_baud |-> 115200, uart_offset |-> 8,
     reg_shift |-> 0, first_offset |-> 0]

ExportCases ==
    { [d |-> Device(PCI_VENDOR_ID_ADDIDATA, 4, PCI_VENDOR_ID_ADDIDATA, 4,
                    CLASS_SERIAL_16550,
                    <<IO(4096, len), NONE, NONE, NONE, NONE, NONE>>),
       e |-> [via |-> "export", board |-> CappedBoard(4)]]
      : len \in {8, 16} }

\* which hooks the matched quirk has; a probe hook is followed with a quirk
\* that has the other two as well
HookSets ==
    {h \in [probe : BOOLEAN, init : BOOLEAN, exit : BOOLEAN] :
        h.probe => (h.init /\ h.exit)}

NoLast == [op |-> "none", arg |-> "", rc |-> 0, ers |-> "", trace |-> <<>>]

CallIdle == [fn |-> "none"]

FqIdle == [pos |-> 0, state |-> "idle"]

Init ==
    /\ \E c \in TableCases \cup DynamicCases \cup ExportCases :
          dev = c.d /\ ent = c.e
    /\ hooks \in HookSets
    /\ drvdata = NULL
    /\ ports = [l \in Lines |-> "free"]
    /\ phase = "present"
    /\ last = NoLast
    /\ att = NoAtt
    /\ hookhist = "balanced"
    /\ fq = FqIdle
    /\ call = CallIdle

(***************************************************************************)
(* What the environment may answer during one attach.                      *)
(***************************************************************************)
InitRcs == {-ENODEV, 0} \cup (1 .. MaxInitPorts)

\* what the init hook returns on resume, where its value is ignored: an
\* error, "use the board's count", a count
ResumeInitRcs == {-ENODEV, 0, 1}

Mappers == { [iomap |-> BARS, table |-> TRUE],
             [iomap |-> {}, table |-> TRUE],
             [iomap |-> {}, table |-> FALSE] }

\* the mapper's answers that matter to a board: refusals only where the
\* board's BARs hold a memory region
MapperChoices(d, board) ==
    IF \E b \in BARS : b >= board.flags.base /\ IORESOURCE_MEM(d, b)
    THEN Mappers ELSE {[iomap |-> BARS, table |-> TRUE]}

\* the environment's answers to one addi_pciserial_init_ports(dev, board):
\* the init hook fails, or kzalloc fails, or the loop runs
Oracles(d, hk, board, pts) ==
    LET rcs == IF hk.init THEN InitRcs ELSE {0}
        m0 == [iomap |-> BARS, table |-> TRUE]
    IN  {[init_rc |-> rc, alloc_ok |-> TRUE, regs |-> <<>>, m |-> m0]
            : rc \in {x \in rcs : x < 0}}
        \cup {[init_rc |-> rc, alloc_ok |-> FALSE, regs |-> <<>>, m |-> m0]
            : rc \in {x \in rcs : x >= 0}}
        \cup UNION {[init_rc : {rc}, alloc_ok : {TRUE},
                     regs : RegSeqs(pts, IF rc # 0 THEN rc
                                         ELSE board.num_ports),
                     m : MapperChoices(d, board)]
                    : rc \in {x \in rcs : x >= 0}}

NoOracle == [init_rc |-> 0, alloc_ok |-> TRUE, regs |-> <<>>,
             m |-> [iomap |-> BARS, table |-> TRUE]]

ProbeRcs == {0, -EACCES}      \* what a probe hook returns
EnableRcs == {0, -ENODEV}     \* what enabling the device returns

Done(op, arg, rc, ers, trace) ==
    [op |-> op, arg |-> arg, rc |-> rc, ers |-> ers, trace |-> trace]

(***************************************************************************)
(* pciserial_init_one: [rc, dev, priv, ports, trace, att]                  *)
(***************************************************************************)
\* the hook's verdict dropped
probe_gate_ignored(hk, probe_rc) == 0

\* the gate at the head of pciserial_init_one: the hook's verdict, 0 to go on
probe_gate(hk, probe_rc) == IF hk.probe THEN probe_rc ELSE 0

pciserial_init_one(d, e, hk, pts, probe_rc, en_rc, o) ==
    LET quirk == find_quirk(d)
        rc1 == probe_gate(hk, probe_rc)
        tr1 == IF hk.probe THEN <<Ev("probe", probe_rc)>> ELSE <<>>
        fail(rc, d2, tr) == [rc |-> rc, dev |-> d2, priv |-> NULL,
                             ports |-> pts, trace |-> tr, att |-> NoAtt]
    IN  IF rc1 # 0 THEN fail(rc1, d, tr1)
        ELSE IF e.driver_data >= ARRAY_SIZE_pci_boards
        THEN fail(-EINVAL, d, tr1)
        ELSE
        LET \* rc = pcim_enable_device(dev); pci_save_state(dev);
            d2 == [d EXCEPT !.enabled = (en_rc = 0), !.saved = TRUE]
            tr2 == tr1 \o <<Ev("enable", en_rc), Ev("save_state", 0)>>
            tmp == pci_boards[pbn_default + 1]
            g == serial_pci_guess_board(d2, tmp)
        IN  IF en_rc # 0 THEN fail(en_rc, d2, tr2)
            ELSE IF e.driver_data = pbn_default /\ g.rc # 0
            THEN fail(g.rc, d2, tr2)
            ELSE
            LET bp == IF e.driver_data = pbn_default
                      THEN [at |-> "tmp", val |-> g.board]
                      ELSE [at |-> "pci_boards", idx |-> e.driver_data]
                tr3 == IF /\ e.driver_data # pbn_default
                          /\ g.rc = 0
                          /\ serial_pci_matches(BoardAt(bp), g.board)
                       THEN Append(tr2, Ev("moan_device", 0)) ELSE tr2
                r == addi_pciserial_init_ports(d2, hk, bp, BoardAt(bp), pts, o)
            IN  IF IS_ERR(r.priv)
                THEN [rc |-> PTR_ERR(r.priv), dev |-> d2, priv |-> NULL,
                      ports |-> r.ports, trace |-> tr3 \o r.trace,
                      att |-> NoAtt]
                ELSE [rc |-> 0, dev |-> d2, priv |-> r.priv,
                      ports |-> r.ports, trace |-> tr3 \o r.trace,
                      att |-> r.att]

\* the descriptor pciserial_init_one will attach with, when it gets there
probe_board(d, e) ==
    IF e.driver_data = pbn_default
    THEN serial_pci_guess_board(d, pci_boards[pbn_default + 1]).board
    ELSE pci_boards[e.driver_data + 1]

Probe ==
    /\ phase = "present"
    /\ ent.via # "export"
    /\ \E probe_rc \in (IF hooks.probe THEN ProbeRcs ELSE {0}) :
       \E en_rc \in (IF probe_rc # 0 THEN {0} ELSE EnableRcs) :
       \E o \in (IF probe_rc # 0 \/ en_rc # 0 THEN {NoOracle}
                 ELSE Oracles(dev, hooks, probe_board(dev, ent), ports)) :
          \E r \in {pciserial_init_one(dev, ent, hooks, ports,
                                      probe_rc, en_rc, o)} :
              /\ dev' = r.dev
              /\ drvdata' = r.priv
              /\ ports' = r.ports
              /\ att' = r.att
              /\ last' = Done("probe", "", r.rc, "", r.trace)
              /\ hookhist' = HookFold(hookhist, r.trace)
              /\ phase' = IF r.rc = 0 THEN "bound" ELSE "failed"
    /\ UNCHANGED <<hooks, ent, fq, call>>

\* another driver calling the exported addi_pciserial_init_ports with its
\* own board descriptor, and keeping the session it returns
ExportInit ==
    /\ phase = "present"
    /\ ent.via = "export"
    /\ \E o \in Oracles(dev, hooks, ent.board, ports) :
          \E r \in {addi_pciserial_init_ports(
                       dev, hooks, [at |-> "caller", val |-> ent.board],
                       ent.board, ports, o)} :
              /\ drvdata' = IF IS_ERR(r.priv) THEN NULL ELSE r.priv
              /\ ports' = r.ports
              /\ att' = r.att
              /\ last' = Done("init_ports", "",
                              IF IS_ERR(r.priv) THEN PTR_ERR(r.priv) ELSE 0,
                              "", r.trace)
              /\ hookhist' = HookFold(hookhist, r.trace)
              /\ phase' = IF IS_ERR(r.priv) THEN "failed" ELSE "bound"
    /\ UNCHANGED <<dev, hooks, ent, fq, call>>

(***************************************************************************)
(* pciserial_suspend_one, pciserial_resume_one, pciserial_remove_one       *)
(***************************************************************************)
Suspend ==
    /\ phase = "bound"
    /\ ent.via # "export"
    /\ \E r \in {IF drvdata # NULL
                THEN addi_pciserial_suspend_ports(drvdata, hooks, ports)
                ELSE [ports |-> ports, trace |-> <<>>]} :
           /\ ports' = r.ports
           /\ last' = Done("suspend", "", 0, "", r.trace)
           /\ hookhist' = HookFold(hookhist, r.trace)
    /\ phase' = "suspended"
    /\ UNCHANGED <<dev, hooks, ent, drvdata, att, fq, call>>

Resume ==
    /\ phase = "suspended"
    /\ ent.via # "export"
    /\ \E err \in EnableRcs,
          init_rc \in (IF hooks.init THEN ResumeInitRcs ELSE {0}) :
          \E r \in {IF drvdata # NULL
                    THEN addi_pciserial_resume_ports(drvdata, hooks, ports,
                                                     init_rc)
                    ELSE [ports |-> ports, trace |-> <<>>]} :
              \E tr \in {IF drvdata # NULL
                         THEN <<Ev("enable", err)>> \o r.trace ELSE <<>>} :
                  /\ dev' = IF drvdata # NULL /\ err = 0
                            THEN [dev EXCEPT !.enabled = TRUE] ELSE dev
                  /\ ports' = r.ports
                  /\ last' = Done("resume", "", 0, "", tr)
                  /\ hookhist' = HookFold(hookhist, tr)
    /\ phase' = "bound"
    /\ UNCHANGED <<hooks, ent, drvdata, att, fq, call>>

\* addi_pciserial_remove_ports: detach, then kfree(priv)
addi_pciserial_remove_ports(priv, d, hk, pts) ==
    pciserial_detach_ports(priv, d, hk, pts)

Remove ==
    /\ phase \in {"bound", "frozen", "disconnected"}
    /\ ent.via # "export"
    /\ \E r \in {addi_pciserial_remove_ports(drvdata, dev, hooks, ports)} :
           /\ ports' = r.ports
           /\ last' = Done("remove", "", 0, "", r.trace)
           /\ hookhist' = HookFold(hookhist, r.trace)
    /\ drvdata' = NULL
    /\ phase' = "removed"
    /\ UNCHANGED <<dev, hooks, ent, att, fq, call>>

(***************************************************************************)
(* The exported suspend, resume and remove, called by the driver that      *)
(* attached through the exported addi_pciserial_init_ports.                *)
(***************************************************************************)
ExportSuspend ==
    /\ phase = "bound"
    /\ ent.via = "export"
    /\ \E r \in {addi_pciserial_suspend_ports(drvdata, hooks, ports)} :
           /\ ports' = r.ports
           /\ last' = Done("suspend", "", 0, "", r.trace)
           /\ hookhist' = HookFold(hookhist, r.trace)
    /\ phase' = "suspended"
    /\ UNCHANGED <<dev, hooks, ent, drvdata, att, fq, call>>

ExportResume ==
    /\ phase = "suspended"
    /\ ent.via = "export"
    /\ \E init_rc \in (IF hooks.init THEN ResumeInitRcs ELSE {0}) :
          \E r \in {addi_pciserial_resume_ports(drvdata, hooks, ports, init_rc)} :
              /\ ports' = r.ports
              /\ last' = Done("resume", "", 0, "", r.trace)
              /\ hookhist' = HookFold(hookhist, r.trace)
    /\ phase' = "bound"
    /\ UNCHANGED <<dev, hooks, ent, drvdata, att, fq, call>>

ExportRemove ==
    /\ phase = "bound"
    /\ ent.via = "export"
    /\ \E r \in {addi_pciserial_remove_ports(drvdata, dev, hooks, ports)} :
           /\ ports' = r.ports
           /\ last' = Done("remove", "", 0, "", r.trace)
           /\ hookhist' = HookFold(hookhist, r.trace)
    /\ drvdata' = NULL
    /\ phase' = "removed"
    /\ UNCHANGED <<dev, hooks, ent, att, fq, call>>

(***************************************************************************)
(* The PCI error handlers.  The bus calls error_detected on a bound        *)
(* device, slot_reset after an error_detected that asked for a reset, and  *)
(* resume after a slot_reset that recovered.                               *)
(***************************************************************************)
ChannelStates ==
    {"pci_channel_io_normal", "pci_channel_io_frozen",
     "pci_channel_io_perm_failure"}

\* the permanent-failure case not told apart
error_is_permanent_never(state) == FALSE

\* if (state == pci_channel_io_perm_failure)
error_is_permanent(state) == state = "pci_channel_io_perm_failure"

serial8250_io_error_detected(priv, d, hk, pts, state) ==
    IF error_is_permanent(state)
    THEN [ers |-> "PCI_ERS_RESULT_DISCONNECT", dev |-> d, ports |-> pts,
          trace |-> <<>>]
    ELSE LET r == IF priv # NULL THEN pciserial_detach_ports(priv, d, hk, pts)
                  ELSE [ports |-> pts, trace |-> <<>>]
         IN  [ers |-> "PCI_ERS_RESULT_NEED_RESET",
              dev |-> [d EXCEPT !.enabled = FALSE],
              ports |-> r.ports,
              trace |-> Append(r.trace, Ev("disable", 0))]

ErrorDetected ==
    /\ phase = "bound"
    /\ ent.via # "export"
    /\ \E state \in ChannelStates :
          \E r \in {serial8250_io_error_detected(drvdata, dev, hooks, ports,
                                                  state)} :
              /\ dev' = r.dev
              /\ ports' = r.ports
              /\ last' = Done("error_detected", state, 0, r.ers, r.trace)
              /\ hookhist' = HookFold(hookhist, r.trace)
              /\ phase' = IF r.ers = "PCI_ERS_RESULT_NEED_RESET"
                          THEN "frozen" ELSE "disconnected"
    /\ UNCHANGED <<hooks, ent, drvdata, att, fq, call>>

SlotReset ==
    /\ phase = "frozen"
    /\ \E rc \in EnableRcs :
          IF rc # 0
          THEN /\ last' = Done("slot_reset", "", 0,
                               "PCI_ERS_RESULT_DISCONNECT",
                               <<Ev("enable", rc)>>)
               /\ phase' = "disconnected"
               /\ dev' = dev
          ELSE /\ last' = Done("slot_reset", "", 0,
                               "PCI_ERS_RESULT_RECOVERED",
                               <<Ev("enable", rc), Ev("restore_state", 0),
                                 Ev("save_state", 0)>>)
               /\ phase' = "reset"
               /\ dev' = [dev EXCEPT !.enabled = TRUE, !.saved = TRUE]
    /\ UNCHANGED <<hooks, ent, drvdata, ports, att, hookhist, fq, call>>

\* the descriptor serial8250_io_resume reads through priv->board
resume_board(priv) == StaleBoards(priv.board)

IoResume ==
    /\ phase = "reset"
    /\ IF drvdata = NULL
       THEN /\ last' = Done("io_resume", "", 0, "", <<>>)
            /\ UNCHANGED <<drvdata, ports, att, hookhist>>
       ELSE \E board \in resume_board(drvdata) :
            \E o \in Oracles(dev, hooks, board, ports) :
              \E r \in {addi_pciserial_init_ports(dev, hooks, drvdata.board,
                                                 board, ports, o)} :
                  /\ drvdata' = IF IS_ERR(r.priv) THEN drvdata ELSE r.priv
                  /\ ports' = r.ports
                  /\ att' = IF IS_ERR(r.priv) THEN att ELSE r.att
                  /\ last' = Done("io_resume", "",
                                  IF IS_ERR(r.priv) THEN PTR_ERR(r.priv)
                                  ELSE 0, "", r.trace)
                  /\ hookhist' = HookFold(hookhist, r.trace)
    /\ phase' = "bound"
    /\ UNCHANGED <<dev, hooks, ent, fq, call>>

Next ==
    \/ Probe
    \/ ExportInit
    \/ Suspend
    \/ Resume
    \/ Remove
    \/ ExportSuspend
    \/ ExportResume
    \/ ExportRemove
    \/ ErrorDetected
    \/ SlotReset
    \/ IoResume

Spec == Init /\ [][Next]_vars


(***************************************************************************)
(* Reading a callback's calls and a session's handles                      *)
(***************************************************************************)
\* the arguments of the calls named ev, in call order
Calls(trace, ev) ==
    LET sel == SelectSeq(trace, LAMBDA e : e.ev = ev)
    IN  [i \in 1 .. Len(sel) |-> sel[i].arg]

Called(trace, ev) == \E i \in 1 .. Len(trace) : trace[i].ev = ev

\* the handles at indices [0, n) of the session
Handles(priv, n) == [i \in 1 .. n |-> priv.line[i - 1]]

AttachOps == {"probe", "init_ports", "io_resume"}

TruncatedStops == {"notpresent", "setuperr", "regfail"}

(***************************************************************************)
(* C1  Attach truncation.  When the setup hook answers "not present" at    *)
(* index k below the nominal count, the loop stops there: k windows were   *)
(* resolved and k ports registered, the session's attached count is k,     *)
(* the k ports are registered when attach returns, and every later suspend *)
(* and resume calls the core exactly on the handles at indices [0, k).     *)
(***************************************************************************)
C1_AttachTruncation ==
    (drvdata # NULL /\ att.stop = "notpresent") =>
        /\ att.at < att.nominal
        /\ drvdata.nr = att.at
        /\ Len(att.windows) = att.at
        /\ (last.op \in AttachOps /\ last.rc = 0 =>
               /\ Calls(last.trace, "register") = Handles(drvdata, att.at)
               /\ \A i \in 0 .. (att.at - 1) :
                      ports[drvdata.line[i]] = "active")
        /\ (last.op = "suspend" =>
               Calls(last.trace, "suspend") = Handles(drvdata, att.at))
        /\ (last.op = "resume" =>
               Calls(last.trace, "resume") = Handles(drvdata, att.at))

C1_Witness ==
    /\ drvdata # NULL
    /\ att.stop = "notpresent"
    /\ att.at = 2
    /\ att.nominal = 4
    /\ last.op = "resume"
    /\ Len(Calls(last.trace, "resume")) = 2

(***************************************************************************)
(* C2  No resource leak.  Once remove has returned, no line of the 8250    *)
(* core is registered any more, whatever callbacks came before.            *)
(***************************************************************************)
C2_NoLeak ==
    phase = "removed" => \A l \in Lines : ports[l] = "free"

C2_Witness ==
    /\ phase = "removed"
    /\ last.op = "remove"
    /\ ent.via = "pci_tbl"
    /\ att.stop = "regfail"
    /\ att.at = 1
    /\ att.nominal = 2
    /\ Len(Calls(last.trace, "unregister")) = 1

(***************************************************************************)
(* C3  Init hook error during attach.                                      *)
(***************************************************************************)
InitFailed(trace) ==
    \E i \in 1 .. Len(trace) : trace[i].ev = "init" /\ trace[i].arg < 0

\* the init hook's negative return, when it failed
InitError(trace) ==
    LET i == CHOOSE j \in 1 .. Len(trace) : trace[j].ev = "init"
    IN  trace[i].arg

C5_IndexZeroFails ==
    (last.op \in {"probe", "init_ports"} /\ att.stop \in TruncatedStops
        /\ att.at = 0) =>
        (last.rc < 0 /\ drvdata = NULL)

\* C5 amended: wherever the first failure is, at index 0 or later, the attach
\* succeeds: success is reported and the session is stored with attached
\* count k, the index of the first failure (zero ports when k = 0).
C5_PartialSuccess ==
    (last.op \in {"probe", "init_ports"} /\ att.stop \in TruncatedStops) =>
        /\ last.rc = 0
        /\ drvdata # NULL
        /\ drvdata.nr = att.at
        /\ phase = "bound"

C5_Witness ==
    /\ last.op = "probe"
    /\ att.stop = "regfail"
    /\ att.at = 0
    /\ att.nominal = 2
    /\ last.rc = 0
    /\ drvdata # NULL


(***************************************************************************)
(* C6  Suspend -> resume round trip.  For a fully attached session, the    *)
(* suspend callback leaves the session as it was and suspends each of its  *)
(* handles once, in order; the resume callback that follows, when its init *)
(* hook succeeds, leaves the session as it was too (the same handles, in   *)
(* the same order, the same attached count) and resumes each of those      *)
(* handles once, in order.                                                 *)
(***************************************************************************)
FullyAttached(priv) ==
    priv # NULL /\ att.stop = "full" /\ priv.nr = att.nominal

C6_SuspendResumeRoundTrip ==
    [][ /\ (last'.op = "suspend" /\ FullyAttached(drvdata) =>
               /\ drvdata' = drvdata
               /\ att' = att
               /\ Calls(last'.trace, "suspend") = Handles(drvdata, drvdata.nr))
        /\ (last.op = "suspend" /\ last'.op = "resume"
               /\ FullyAttached(drvdata) /\ ~InitFailed(last'.trace) =>
               /\ drvdata' = drvdata
               /\ att' = att
               /\ Calls(last.trace, "suspend") = Handles(drvdata, drvdata.nr)
               /\ Calls(last'.trace, "resume") = Handles(drvdata', drvdata'.nr)
               /\ \A i \in 0 .. (drvdata'.nr - 1) :
                      ports[drvdata.line[i]] = "suspended" =>
                          ports'[drvdata'.line[i]] = "active")
      ]_vars

C6_Witness ==
    /\ last.op = "resume"
    /\ FullyAttached(drvdata)
    /\ drvdata.nr = 2
    /\ hooks.init
    /\ ~InitFailed(last.trace)
    /\ Calls(last.trace, "resume") = Handles(drvdata, 2)
    /\ \A i \in 0 .. 1 : ports[drvdata.line[i]] = "active"

(***************************************************************************)
(* C7  Fault round trip, as claimed: after error_detected, a successful    *)
(* slot_reset and resume, the rebuilt session was attached with a board    *)
(* descriptor whose nominal port count is that of the descriptor the       *)
(* original session was attached with.                                     *)
(***************************************************************************)
C7_FaultRoundTrip ==
    (last.op = "io_resume" /\ last.rc = 0) =>
        att.num_ports = BoardAt(drvdata.board).num_ports

(***************************************************************************)
(* C8  Fault detection.                                                    *)
(***************************************************************************)
Detached(priv) ==
    /\ Calls(last.trace, "unregister") = Handles(priv, priv.nr)
    /\ \A i \in 0 .. (priv.nr - 1) : ports[priv.line[i]] = "free"
    /\ hooks.exit => Called(last.trace, "exit")
    /\ Called(last.trace, "disable")
    /\ ~dev.enabled

\* C8 as claimed: on every fault notification for a device with a session,
\* all attached ports are unregistered, the exit hook is run and the device
\* is disabled before the callback returns.
C8_EveryFaultDetaches ==
    (last.op = "error_detected" /\ drvdata # NULL) => Detached(drvdata)

\* C8 amended: on every fault notification whose channel state is not
\* permanent failure, all attached ports are unregistered, the exit hook is
\* run as in removal and the device is disabled before the callback returns
\* asking for a reset; on a permanent-failure notification the callback
\* returns "disconnect" without unregistering a port, running the exit hook
\* or disabling the device.
C8_FaultDetaches ==
    (last.op = "error_detected" /\ drvdata # NULL) =>
        IF last.arg # "pci_channel_io_perm_failure"
        THEN Detached(drvdata) /\ last.ers = "PCI_ERS_RESULT_NEED_RESET"
        ELSE /\ last.trace = <<>>
             /\ last.ers = "PCI_ERS_RESULT_DISCONNECT"
             /\ phase = "disconnected"

C8_Witness ==
    /\ last.op = "error_detected"
    /\ last.arg = "pci_channel_io_frozen"
    /\ drvdata # NULL
    /\ drvdata.nr = 2
    /\ hooks.exit
    /\ Len(Calls(last.trace, "unregister")) = 2
    /\ ~dev.enabled

(***************************************************************************)
(* C9  Probe veto.  When the matched quirk's probe hook denies, probe      *)
(* returns the hook's error having made no other call: the device is not   *)
(* enabled, no configuration state is saved, the init hook has not run, no *)
(* session is stored and no port is registered.                            *)
(***************************************************************************)
ProbeDenied(trace) ==
    \E i \in 1 .. Len(trace) : trace[i].ev = "probe" /\ trace[i].arg # 0

C9_ProbeVeto ==
    (last.op = "probe" /\ ProbeDenied(last.trace)) =>
        /\ last.trace = <<Ev("probe", last.rc)>>
        /\ last.rc # 0
        /\ ~dev.enabled
        /\ ~dev.saved
        /\ drvdata = NULL
        /\ \A l \in Lines : ports[l] = "free"
        /\ hookhist = "balanced"
        /\ phase = "failed"

C9_Witness ==
    /\ last.op = "probe"
    /\ hooks.probe /\ hooks.init
    /\ last.rc = -EACCES
    /\ last.trace = <<Ev("probe", -EACCES)>>


(***************************************************************************)
(* find_quirk on its own: the scan of pci_serial_quirks, one entry per     *)
(* step, for every identity drawn from the values below.                   *)
(***************************************************************************)
QuirkVendors ==
    {PCI_VENDOR_ID_AMCC, PCI_VENDOR_ID_ADDIDATA, PCI_VENDOR_ID_NETMOS, 65535}
QuirkDevices ==
    {PCI_DEVICE_ID_AMCC_ADDIDATA_APCI7800,
     PCI_DEVICE_ID_AMCC_ADDIDATA_APCI7500_d3,
     PCI_DEVICE_ID_ADDIDATA_APCI7500, 65535}
QuirkSubvendors == {PCI_VENDOR_ID_AMCC, PCI_VENDOR_ID_IBM}
QuirkSubdevices == {PCI_DEVICE_ID_AMCC_ADDIDATA_APCI7800, 665}

InitQuirk ==
    /\ \E v \in QuirkVendors, dv \in QuirkDevices,
          sv \in QuirkSubvendors, sd \in QuirkSubdevices :
          dev = Device(v, dv, sv, sd, CLASS_SERIAL_16550,
                       <<NONE, NONE, NONE, NONE, NONE, NONE>>)
    /\ ent = [via |-> "pci_tbl", driver_data |-> pbn_default]
    /\ hooks = [probe |-> FALSE, init |-> FALSE, exit |-> FALSE]
    /\ drvdata = NULL
    /\ ports = [l \in Lines |-> "free"]
    /\ phase = "present"
    /\ last = NoLast
    /\ att = NoAtt
    /\ hookhist = "balanced"
    /\ fq = [pos |-> 1, state |-> "scan"]
    /\ call = CallIdle

\* one iteration of for (quirk = pci_serial_quirks;; quirk++)
FindQuirkStep ==
    /\ fq.state = "scan"
    /\ fq' = IF fq.pos > Len(pci_serial_quirks)
             THEN [fq EXCEPT !.state = "overrun"]
             ELSE IF quirk_matches(fq.pos, dev)
             THEN [fq EXCEPT !.state = "found"]
             ELSE [fq EXCEPT !.pos = fq.pos + 1]
    /\ UNCHANGED <<dev, hooks, ent, drvdata, ports, phase, last, att,
                   hookhist, call>>

NextQuirk == FindQuirkStep

SpecQuirk == InitQuirk /\ [][NextQuirk]_vars

(***************************************************************************)
(* C10  Quirk lookup is total and first-match.  For every identity the     *)
(* scan stays inside the table and ends on exactly one entry: the first    *)
(* entry, in table order, each of whose four fields is the wildcard or the *)
(* identity's field.  An identity that the card-specific entry covers gets *)
(* the card-specific entry, not the wildcard terminator.                   *)
(***************************************************************************)
Covers(entry, d) ==
    /\ entry.vendor \in {PCI_ANY_ID, d.vendor}
    /\ entry.device \in {PCI_ANY_ID, d.device}
    /\ entry.subvendor \in {PCI_ANY_ID, d.subsystem_vendor}
    /\ entry.subdevice \in {PCI_ANY_ID, d.subsystem_device}

C10_QuirkLookup ==
    /\ fq.state # "overrun"
    /\ fq.state = "scan" =>
           /\ fq.pos \in 1 .. Len(pci_serial_quirks)
           /\ \A j \in 1 .. (fq.pos - 1) : ~Covers(pci_serial_quirks[j], dev)
    /\ fq.state = "found" =>
           /\ fq.pos \in 1 .. Len(pci_serial_quirks)
           /\ Covers(pci_serial_quirks[fq.pos], dev)
           /\ \A j \in 1 .. (fq.pos - 1) : ~Covers(pci_serial_quirks[j], dev)
           /\ fq.pos = find_quirk(dev)
           /\ (Covers(pci_serial_quirks[1], dev) =>
                  pci_serial_quirks[fq.pos].setup = "addidata_apci7800_setup")

C10_Witness ==
    /\ fq.state = "found"
    /\ fq.pos = 1
    /\ dev.vendor = PCI_VENDOR_ID_AMCC
    /\ Covers(pci_serial_quirks[1], dev)
    /\ Covers(pci_serial_quirks[2], dev)


(***************************************************************************)
(* The per-port setup functions on their own: one call of setup_port,      *)
(* pci_default_setup or addidata_apci7800_setup on a device, with a board  *)
(* descriptor, a port index and a mapper drawn from the sets below.        *)
(***************************************************************************)
MaxSetupIdx == 8

\* region lists: six 8-byte I/O BARs; one I/O BAR of four ports; memory and
\* I/O BARs mixed; a first BAR shorter than a first-port offset of 16
SetupLayouts ==
    { <<IO(4096, 8), IO(4104, 8), IO(4112, 8), IO(4120, 8), IO(4128, 8),
        IO(4136, 8)>>,
      <<IO(4096, 32), NONE, NONE, NONE, NONE, NONE>>,
      <<MEM(8192, 64), IO(4096, 16), MEM(16384, 32), IO(4112, 16),
        MEM(32768, 16), NONE>>,
      <<IO(4096, 8), MEM(8192, 64), NONE, IO(4104, 24), NONE, NONE>> }

SetupDevices ==
    { [Device(PCI_VENDOR_ID_AMCC, PCI_DEVICE_ID_AMCC_ADDIDATA_APCI7800,
              PCI_VENDOR_ID_AMCC, PCI_DEVICE_ID_AMCC_ADDIDATA_APCI7800,
              CLASS_SERIAL_16550, l)
          EXCEPT !.extra_len = x, !.phys64 = p]
      : l \in SetupLayouts, x \in {0, 64}, p \in BOOLEAN }

\* descriptors a caller can hand over: struct pciserial_board with every
\* combination of base BAR, FL_BASE_BARS, FL_REGION_SZ_CAP, register shift
\* and first-port offset; eight ports, stride 8
SetupBoards ==
    [flags : [base : {0, 1, 2}, bars : BOOLEAN, cap : BOOLEAN,
              noirq : {FALSE}],
     num_ports : {8}, base_baud : {115200}, uart_offset : {8},
     reg_shift : {0, 1}, first_offset : {0, 16}]

NoBoard == Board(FL_BASE0, 0, 0, 0, 0)

\* the entries of pci_boards
CatalogBoards == { pci_boards[b] : b \in 1 .. ARRAY_SIZE_pci_boards }

CallOf(fn, board, idx, bar, offset, regshift, m, res, reads) ==
    [fn |-> fn, board |-> board, idx |-> idx, bar |-> bar,
     offset |-> offset, regshift |-> regshift, m |-> m, res |-> res,
     reads |-> reads]

InitSetup ==
    /\ dev \in SetupDevices
    /\ ent = [via |-> "pci_tbl", driver_data |-> pbn_b1_8_115200]
    /\ hooks = [probe |-> FALSE, init |-> FALSE, exit |-> FALSE]
    /\ drvdata = NULL
    /\ ports = [l \in Lines |-> "free"]
    /\ phase = "present"
    /\ last = NoLast
    /\ att = NoAtt
    /\ hookhist = "balanced"
    /\ fq = FqIdle
    /\ call = CallIdle

SetupUnchanged ==
    UNCHANGED <<dev, hooks, ent, drvdata, ports, phase, last, att, hookhist,
                fq>>

SetupPortCall ==
    /\ call.fn = "none"
    /\ \E bar \in 0 .. (PCI_NUM_BAR_RESOURCES + 1), offset \in {0, 8},
          regshift \in {0, 1}, m \in Mappers :
          call' = CallOf("setup_port", NoBoard, 0, bar, offset, regshift, m,
                          setup_port(dev, m, bar, offset, regshift),
                          setup_port_reads(dev, m, bar))
    /\ SetupUnchanged

DefaultSetupCall ==
    /\ call.fn = "none"
    /\ \E board \in SetupBoards \cup CatalogBoards, idx \in 0 .. MaxSetupIdx,
          m \in Mappers :
          call' = CallOf("pci_default_setup", board, idx, 0, 0, 0, m,
                          pci_default_setup(dev, m, board, idx),
                          pci_default_setup_reads(dev, m, board, idx))
    /\ SetupUnchanged

Apci7800SetupCall ==
    /\ call.fn = "none"
    /\ \E board \in SetupBoards \cup CatalogBoards, idx \in 0 .. MaxSetupIdx,
          m \in Mappers :
          call' = CallOf("addidata_apci7800_setup", board, idx, 0, 0, 0, m,
                          addidata_apci7800_setup(dev, m, board, idx),
                          addidata_apci7800_setup_reads(dev, m, board, idx))
    /\ SetupUnchanged

NextSetup == SetupPortCall \/ DefaultSetupCall \/ Apci7800SetupCall

SpecSetup == InitSetup /\ [][NextSetup]_vars


(***************************************************************************)
(* Reading a setup call: the BAR and offset the default layout names, and  *)
(* the capacity of a region as the quotient of integers.                   *)
(***************************************************************************)
TargetBar(board, idx) ==
    IF board.flags.bars THEN board.flags.base + idx ELSE board.flags.base

TargetOffset(board, idx) ==
    IF board.flags.bars THEN board.first_offset
    ELSE board.first_offset + idx * board.uart_offset

\* (length - first-port offset) >> (register shift + 3)
Capacity(d, board, bar) ==
    (pci_resource_len(d, bar) - board.first_offset)
        \div Pow2(board.reg_shift + 3)

\* the window of BAR bar at offset: what setup_port fills in on success
IsWindow(d, port, bar, offset) ==
    /\ port # NULL
    /\ port.bar = bar
    /\ IF IORESOURCE_MEM(d, bar)
       THEN port.iotype = "UPIO_MEM"
            /\ port.mapbase = pci_resource_start(d, bar) + offset
            /\ port.membase.offset = offset
       ELSE port.iotype = "UPIO_PORT"
            /\ port.iobase = pci_resource_start(d, bar) + offset

(***************************************************************************)
(* C11  Capacity cap, as claimed: on a capacity-capped board, with         *)
(* capacity = (length of the target BAR's region - first-port offset) >>   *)
(* (register shift + 3), pci_default_setup returns "not present" for every *)
(* port index at or above the capacity and resolves a window, with no      *)
(* error, for every port index below it.                                   *)
(***************************************************************************)
C11_CapacityCap ==
    (call.fn = "pci_default_setup" /\ call.board.flags.cap) =>
        LET bar == TargetBar(call.board, call.idx)
        IN  IF call.idx >= Capacity(dev, call.board, bar)
            THEN call.res.rc = 1 /\ call.res.port = NULL
            ELSE /\ call.res.rc = 0
                 /\ IsWindow(dev, call.res.port, bar,
                             TargetOffset(call.board, call.idx))

(***************************************************************************)
(* C12  Default layout.                                                    *)
(***************************************************************************)
\* C12 as claimed: for a board that is not capacity-capped and every port
\* index below its nominal count, pci_default_setup resolves the window of
\* BAR base + index at the first-port offset when the board is BAR-indexed,
\* and of the base BAR at first-port offset + index x stride when it is
\* offset-indexed.
C12_DefaultLayout ==
    (call.fn = "pci_default_setup" /\ ~call.board.flags.cap
        /\ call.idx < call.board.num_ports) =>
        /\ call.res.rc = 0
        /\ IsWindow(dev, call.res.port, TargetBar(call.board, call.idx),
                    TargetOffset(call.board, call.idx))

\* C12 amended: for such a board and index, pci_default_setup targets BAR
\* base + index at the first-port offset (BAR-indexed) or the base BAR at
\* first-port offset + index x stride (offset-indexed) and returns what
\* setup_port returns for that target: the window there on success; -EINVAL
\* and no window when the target BAR is not below 6; -ENOMEM and no window
\* when the target is a memory BAR whose mapping is refused while no iomap
\* table exists.  It never answers "not present".
C12_DefaultLayoutTarget ==
    (call.fn = "pci_default_setup" /\ ~call.board.flags.cap
        /\ call.idx < call.board.num_ports) =>
        LET bar == TargetBar(call.board, call.idx)
            offset == TargetOffset(call.board, call.idx)
        IN  /\ call.res = setup_port(dev, call.m, bar, offset,
                                     call.board.reg_shift)
            /\ call.res.rc \in {0, -EINVAL, -ENOMEM}
            /\ call.res.rc = 0 => IsWindow(dev, call.res.port, bar, offset)
            /\ call.res.rc # 0 => call.res.port = NULL
            /\ call.res.rc = -EINVAL <=> bar >= PCI_NUM_BAR_RESOURCES
            /\ call.res.rc = -ENOMEM <=>
                   /\ bar < PCI_NUM_BAR_RESOURCES
                   /\ IORESOURCE_MEM(dev, bar)
                   /\ bar \notin call.m.iomap
                   /\ ~call.m.table

C12_Witness ==
    /\ call.fn = "pci_default_setup"
    /\ ~call.board.flags.cap
    /\ call.board.flags.bars
    /\ call.board.flags.base = 1
    /\ call.board.first_offset = 16
    /\ call.idx = 3
    /\ call.res.rc = 0
    /\ call.res.port.bar = 4
    /\ call.res.port.iotype = "UPIO_PORT"
    /\ call.res.port.iobase = pci_resource_start(dev, 4) + 16

(***************************************************************************)
(* C13  Two-ports-per-BAR layout.                                          *)
(***************************************************************************)
PairBar(board, idx) == board.flags.base + (idx \div 2)

\* C13 as claimed: for every port index in [0, 8), addidata_apci7800_setup
\* resolves the window of BAR base + floor(idx / 2) at offset
\* (idx mod 2) x stride.
C13_TwoPortsPerBar ==
    (call.fn = "addidata_apci7800_setup" /\ call.idx \in 0 .. 7) =>
        /\ call.res.rc = 0
        /\ IsWindow(dev, call.res.port, PairBar(call.board, call.idx),
                    (call.idx % 2) * call.board.uart_offset)

\* C13 amended: for every port index in [0, 8), addidata_apci7800_setup
\* targets BAR base + floor(idx / 2) at offset first-port offset +
\* (idx mod 2) x stride and returns what setup_port returns for that target:
\* the window there on success; -EINVAL and no window when the target BAR is
\* not below 6; -ENOMEM and no window when the target is a memory BAR whose
\* mapping is refused while no iomap table exists.
C13_TwoPortsPerBarTarget ==
    (call.fn = "addidata_apci7800_setup" /\ call.idx \in 0 .. 7) =>
        LET bar == PairBar(call.board, call.idx)
            offset == call.board.first_offset
                          + (call.idx % 2) * call.board.uart_offset
        IN  /\ call.res = setup_port(dev, call.m, bar, offset,
                                     call.board.reg_shift)
            /\ call.res.rc \in {0, -EINVAL, -ENOMEM}
            /\ call.res.rc = 0 => IsWindow(dev, call.res.port, bar, offset)
            /\ call.res.rc # 0 => call.res.port = NULL
            /\ call.res.rc = -EINVAL <=> bar >= PCI_NUM_BAR_RESOURCES
            /\ call.res.rc = -ENOMEM <=>
                   /\ bar < PCI_NUM_BAR_RESOURCES
                   /\ IORESOURCE_MEM(dev, bar)
                   /\ bar \notin call.m.iomap
                   /\ ~call.m.table

C13_Witness ==
    /\ call.fn = "addidata_apci7800_setup"
    /\ call.board.flags.base = 1
    /\ call.board.first_offset = 16
    /\ call.idx = 5
    /\ call.res.rc = 0
    /\ call.res.port.bar = 3
    /\ call.res.port.iotype = "UPIO_PORT"
    /\ call.res.port.iobase = pci_resource_start(dev, 3) + 16 + 8

(***************************************************************************)
(* C17  Mapping refusal, as claimed: whenever setup_port targets a BAR     *)
(* that holds a memory region and the mapper refuses to map it, setup_port *)
(* fails with -ENOMEM and fills in no window, whether or not other BARs of *)
(* the device were mapped before (an iomap table exists).                  *)
(***************************************************************************)
C17_MappingRefusal ==
    (call.fn = "setup_port" /\ call.bar < PCI_NUM_BAR_RESOURCES
        /\ IORESOURCE_MEM(dev, call.bar) /\ call.bar \notin call.m.iomap) =>
        (call.res.rc = -ENOMEM /\ call.res.port = NULL)


(***************************************************************************)
(* The board heuristic on its own: one call of serial_pci_guess_board on a *)
(* copy of pci_boards[pbn_default], for every device whose class is one of *)
(* GuessClasses and whose six BARs each hold one of GuessRegions.          *)
(***************************************************************************)
\* serial 16550; serial with programming interface 7; multiport serial;
\* modem; a network controller
GuessClasses ==
    { CLASS_SERIAL_16550,
      PCI_CLASS_COMMUNICATION_SERIAL * 256 + 7,
      CLASS_MULTISERIAL,
      PCI_CLASS_COMMUNICATION_MODEM * 256,
      512 * 256 }

GuessRegions == { NONE, IO(4096, 4), IO(4096, 8), IO(4096, 64), MEM(8192, 64) }

InitGuess ==
    /\ \E c \in GuessClasses, r0 \in GuessRegions, r1 \in GuessRegions,
          r2 \in GuessRegions, r3 \in GuessRegions, r4 \in GuessRegions,
          r5 \in GuessRegions :
          dev = Device(PCI_VENDOR_ID_NETMOS, 5, PCI_VENDOR_ID_NETMOS, 5, c,
                       <<r0, r1, r2, r3, r4, r5>>)
    /\ ent = [via |-> "new_id", driver_data |-> pbn_default]
    /\ hooks = [probe |-> FALSE, init |-> FALSE, exit |-> FALSE]
    /\ drvdata = NULL
    /\ ports = [l \in Lines |-> "free"]
    /\ phase = "present"
    /\ last = NoLast
    /\ att = NoAtt
    /\ hookhist = "balanced"
    /\ fq = FqIdle
    /\ call = CallIdle

\* rc = serial_pci_guess_board(dev, &tmp), tmp a copy of the pbn_default entry
GuessCall ==
    /\ call.fn = "none"
    /\ call' = CallOf("serial_pci_guess_board", pci_boards[pbn_default + 1],
                      0, 0, 0, 0, NoOracle.m,
                      serial_pci_guess_board(dev,
                                             pci_boards[pbn_default + 1]),
                      serial_pci_guess_board_reads(dev))
    /\ SetupUnchanged

NextGuess == GuessCall

SpecGuess == InitGuess /\ [][NextGuess]_vars

(***************************************************************************)
(* Reading a device's region list                                          *)
(***************************************************************************)
ClassOf(d) == d.class \div 256
ProgIf(d) == d.class % 256

IoSlots(d) == {b \in BARS : IORESOURCE_IO(d, b)}
MemSlots(d) == {b \in BARS : IORESOURCE_MEM(d, b)}

\* the class gate lets the device through to the region scans
ClassAccepted(d) ==
    /\ ClassOf(d) \in {PCI_CLASS_COMMUNICATION_SERIAL,
                       PCI_CLASS_COMMUNICATION_MODEM}
    /\ ProgIf(d) <= 6

Phase1Applies(d) ==
    Cardinality(MemSlots(d)) <= 1 /\ Cardinality(IoSlots(d)) = 1

Unresolvable(c) == c.res.rc = -ENODEV /\ c.res.board = c.board

(***************************************************************************)
(* C14  Heuristic phase 1 and class gate.  A multiport-serial device is    *)
(* Unresolvable whatever its regions.  A serial or modem device with       *)
(* programming interface at most 6, at most one memory region and exactly  *)
(* one I/O region gets an offset-indexed descriptor based at that I/O      *)
(* region's BAR, with port count = region length / 8; a single 64-byte I/O *)
(* region gives 8 ports.                                                   *)
(***************************************************************************)
C14_Phase1AndClassGate ==
    call.fn = "serial_pci_guess_board" =>
        /\ ClassOf(dev) = PCI_CLASS_COMMUNICATION_MULTISERIAL =>
               Unresolvable(call)
        /\ (ClassAccepted(dev) /\ Phase1Applies(dev)) =>
               LET b == CHOOSE x \in IoSlots(dev) : TRUE
               IN  /\ call.res.rc = 0
                   /\ call.res.board.flags.base = b
                   /\ ~call.res.board.flags.bars
                   /\ call.res.board.num_ports =
                          pci_resource_len(dev, b) \div 8
                   /\ pci_resource_len(dev, b) = 64 =>
                          call.res.board.num_ports = 8
                   /\ call.res.board.uart_offset = call.board.uart_offset
                   /\ call.res.board.first_offset = call.board.first_offset

C14_Witness ==
    /\ call.fn = "serial_pci_guess_board"
    /\ ClassOf(dev) = PCI_CLASS_COMMUNICATION_MODEM
    /\ IoSlots(dev) = {3}
    /\ MemSlots(dev) = {0}
    /\ pci_resource_len(dev, 3) = 64
    /\ call.res.rc = 0
    /\ call.res.board.num_ports = 8
    /\ call.res.board.flags.base = 3

(***************************************************************************)
(* C15  Descriptor invariant, as claimed: every board descriptor that      *)
(* reaches attach through probe, taken from pci_boards by the index of the *)
(* matched serial_pci_tbl row or produced by the heuristic, has a port     *)
(* count of at least 1.                                                    *)
(***************************************************************************)
C15_DescriptorInvariant ==
    (last.op = "probe" /\ att.stop # "none") => att.num_ports >= 1

(***************************************************************************)
(* C16  Fault-resume rebuild, as claimed: on the resume that follows a     *)
(* slot reset the session is rebuilt from scratch.  The board descriptor   *)
(* attached with is the one resolved afresh for the device (the catalog    *)
(* entry of the matched row, or the heuristic's result for the device's    *)
(* regions); on success the new session, with the ports it registered, is  *)
(* the device's session; on failure nothing is retried and the device has  *)
(* no registered port.                                                     *)
(***************************************************************************)
\* the handles the callback's successful registrations returned, in order
Registered(trace) ==
    SelectSeq(Calls(trace, "register"), LAMBDA l : l >= 0)

C16_FaultResumeRebuild ==
    (last.op = "io_resume" /\ drvdata # NULL) =>
        IF last.rc = 0
        THEN /\ att.num_ports = probe_board(dev, ent).num_ports
             /\ drvdata.nr = att.at
             /\ Registered(last.trace) = Handles(drvdata, drvdata.nr)
        ELSE \A l \in Lines : ports[l] = "free"

(***************************************************************************)
(* C19  Suspend/resume sequencing.  Suspend suspends each attached port    *)
(* once, in index order 0 .. attached count - 1, and runs the exit hook    *)
(* only after the last port suspend.  Resume runs the init hook before any *)
(* port resume and, whether init succeeds or fails, then resumes each      *)
(* attached port once, in the same index order.                            *)
(***************************************************************************)
\* the hook and port calls of a callback, in order
HookAndPortCalls(trace) ==
    SelectSeq(trace,
              LAMBDA e : e.ev \in {"init", "exit", "suspend", "resume"})

PortCalls(ev, priv) == [i \in 1 .. priv.nr |-> Ev(ev, priv.line[i - 1])]

C19_SuspendResumeSequencing ==
    /\ (last.op = "suspend" /\ drvdata # NULL) =>
           HookAndPortCalls(last.trace) =
               PortCalls("suspend", drvdata)
                   \o (IF hooks.exit THEN <<Ev("exit", 0)>> ELSE <<>>)
    /\ (last.op = "resume" /\ drvdata # NULL) =>
           LET c == HookAndPortCalls(last.trace)
           IN  IF hooks.init
               THEN /\ Len(c) = drvdata.nr + 1
                    /\ c[1].ev = "init"
                    /\ SubSeq(c, 2, Len(c)) = PortCalls("resume", drvdata)
               ELSE c = PortCalls("resume", drvdata)

C19_Witness ==
    /\ last.op = "resume"
    /\ drvdata # NULL
    /\ drvdata.nr = 2
    /\ hooks.init
    /\ InitFailed(last.trace)
    /\ Calls(last.trace, "resume") = Handles(drvdata, 2)
    /\ drvdata.line[0] > drvdata.line[1]

(***************************************************************************)
(* C20  No use of a released handle, as claimed: in every callback, each   *)
(* unregister, suspend and resume call is made on a handle that is         *)
(* registered when the callback starts; no handle is unregistered twice    *)
(* or suspended or resumed after it was unregistered.                      *)
(***************************************************************************)
C20_NoReleasedHandleUse ==
    [][ \A i \in 1 .. Len(last'.trace) :
            last'.trace[i].ev \in {"unregister", "suspend", "resume"} =>
                ports[last'.trace[i].arg] # "free" ]_vars

(***************************************************************************)
(* C18  Heuristic phase 2.                                                 *)
(***************************************************************************)
\* the slots holding an I/O region of exactly 8 bytes
EightByteIo(d) ==
    {b \in BARS : IORESOURCE_IO(d, b) /\ pci_resource_len(d, b) = 8}

\* the runs of index-contiguous such slots that cannot be extended
MaximalRuns(d) ==
    {r \in SUBSET EightByteIo(d) :
        /\ r # {}
        /\ \E lo \in r, hi \in r :
              /\ r = lo .. hi
              /\ (lo - 1) \notin EightByteIo(d)
              /\ (hi + 1) \notin EightByteIo(d)}

\* the run that starts at the lowest such slot
FirstRun(d) ==
    {b \in EightByteIo(d) : \A x \in BARS :
        (x <= b /\ \E y \in EightByteIo(d) : y <= x) => x \in EightByteIo(d)}

Lowest(r) == CHOOSE b \in r : \A x \in r : b <= x

BarIndexedOn(c, r) ==
    /\ c.res.rc = 0
    /\ c.res.board.flags.bars
    /\ c.res.board.flags.base = Lowest(r)
    /\ c.res.board.num_ports = Cardinality(r)

\* C18 as claimed: when phase 1 does not apply, the heuristic considers the
\* maximal run of index-contiguous 8-byte I/O regions among the six slots;
\* whenever such a run holds more than one region the result is a
\* BAR-indexed descriptor based at the run's first slot with as many ports
\* as the run has regions; otherwise the result is Unresolvable.
C18_Phase2MaximalRun ==
    (call.fn = "serial_pci_guess_board" /\ ClassAccepted(dev)
        /\ ~Phase1Applies(dev)) =>
        IF \E r \in MaximalRuns(dev) : Cardinality(r) > 1
        THEN \E r \in MaximalRuns(dev) :
                 /\ \A q \in MaximalRuns(dev) :
                        Cardinality(q) <= Cardinality(r)
                 /\ BarIndexedOn(call, r)
        ELSE Unresolvable(call)

\* C18 amended: for a device that passes the class gate and to which phase
\* 1 does not apply, the heuristic considers one run only: the run of
\* index-contiguous 8-byte I/O regions that starts at the lowest slot
\* holding such a region.  When that run holds more than one region the
\* result is a BAR-indexed descriptor based at that slot with as many ports
\* as the run has regions; otherwise, also when a later run is longer, the
\* result is Unresolvable.
C18_Phase2FirstRun ==
    (call.fn = "serial_pci_guess_board" /\ ClassAccepted(dev)
        /\ ~Phase1Applies(dev)) =>
        IF Cardinality(FirstRun(dev)) > 1
        THEN BarIndexedOn(call, FirstRun(dev))
        ELSE Unresolvable(call)

C18_Witness ==
    /\ call.fn = "serial_pci_guess_board"
    /\ ClassAccepted(dev)
    /\ ~Phase1Applies(dev)
    /\ EightByteIo(dev) = {1, 3, 4, 5}
    /\ FirstRun(dev) = {1}
    /\ call.res.rc = -ENODEV

(***************************************************************************)
(* C21  Attached-count invariant.  In every session an attach returns,     *)
(* from probe, from the exported entry point or from the rebuild after a   *)
(* reset, the attached count is between 0 and the nominal count the handle *)
(* array was sized to (the board's port count, or the init hook's positive *)
(* return), every slot below the attached count holds the handle a         *)
(* successful registration returned, and that port is registered; a        *)
(* registration failing at index k leaves the attached count at k with     *)
(* ports 0 .. k-1 registered.                                              *)
(***************************************************************************)
\* the init hook's return in a callback, 0 when no init hook ran
InitOverride(trace) ==
    IF Called(trace, "init") THEN InitError(trace) ELSE 0

C21_AttachedCount ==
    (last.op \in AttachOps /\ last.rc = 0 /\ drvdata # NULL) =>
        /\ DOMAIN drvdata.line = 0 .. (att.nominal - 1)
        /\ att.nominal = (IF InitOverride(last.trace) > 0
                          THEN InitOverride(last.trace) ELSE att.num_ports)
        /\ 0 <= drvdata.nr
        /\ drvdata.nr <= att.nominal
        /\ Handles(drvdata, drvdata.nr) = Registered(last.trace)
        /\ \A i \in 0 .. (drvdata.nr - 1) :
               /\ drvdata.line[i] \in Lines
               /\ ports[drvdata.line[i]] = "active"
        /\ att.stop = "regfail" =>
               /\ drvdata.nr = att.at
               /\ Len(Calls(last.trace, "register")) = att.at + 1
               /\ Calls(last.trace, "register")[att.at + 1] < 0

C21_Witness ==
    /\ last.op = "io_resume"
    /\ last.rc = 0
    /\ drvdata # NULL
    /\ att.stop = "regfail"
    /\ att.nominal = 2
    /\ drvdata.nr = 1
    /\ ports[drvdata.line[0]] = "active"

(***************************************************************************)
(* C22  BAR range, as claimed: for every board of the catalog and every    *)
(* port index below the board's nominal port count, pci_default_setup and  *)
(* addidata_apci7800_setup read region attributes (length, kind, start)    *)
(* only for BAR slots 0 .. 5, and every window they produce has its BAR    *)
(* index in 0 .. 5.                                                        *)
(***************************************************************************)
C22_BarRange ==
    (/\ call.fn \in {"pci_default_setup", "addidata_apci7800_setup"}
     /\ call.board \in CatalogBoards
     /\ call.idx < call.board.num_ports) =>
        /\ call.reads \subseteq 0 .. (PCI_NUM_BAR_RESOURCES - 1)
        /\ call.res.rc = 0 =>
               call.res.port.bar \in 0 .. (PCI_NUM_BAR_RESOURCES - 1)

(***************************************************************************)
(* C23  Capacity arithmetic, as claimed: on a capacity-capped board whose  *)
(* target region is shorter than the first-port offset (a zero-length or   *)
(* absent region included), the capacity pci_default_setup computes is 0   *)
(* and it returns "not present" for every port index; the unsigned         *)
(* subtraction never turns a short region into a large capacity.           *)
(***************************************************************************)
C23_CapacityNoWrap ==
    (/\ call.fn = "pci_default_setup"
     /\ call.board.flags.cap
     /\ pci_resource_len(dev, TargetBar(call.board, call.idx))
            < call.board.first_offset) =>
        /\ maxnr_of(dev, call.board, TargetBar(call.board, call.idx)) = 0
        /\ call.res.rc = 1

=============================================================================
